---- MODULE Spec2Model ----
(***************************************************************************)
(* Ultimate Tic-Tac-Toe (src/game2.py): the rule engine behind the event   *)
(* loop of Game.run.  The state is the Game object that is currently       *)
(* running (start_game() never returns, so a restart replaces it), and     *)
(* every action is the complete handling of one event of pg.event.get().   *)
(***************************************************************************)
EXTENDS Integers, Sequences, FiniteSets, TLC

\* ------------------------------------------------------------------ values

\* float("nan"): the value of a tile or sub-board nobody owns.  Any sum that
\* involves it is NaN again (see Add), so it equals neither 3 nor 0.
NaN == -1

\* self.winner / sub_board.winner before anybody has won.
None == "None"

\* Positions in the lists Game.sub_boards and SubBoard.tiles (built row by
\* row, so position 3*i + j holds index (i, j)).
Boards == 0..8

\* The Game object itself, when it is passed to evaluate as `board`.
GameRef == 9

\* The .index of the sub-board / tile at list position k.
Index(k) == <<k \div 3, k % 3>>

\* ------------------------------------------------------------------ bounds

\* Number of events handled after the initial state.
MaxSteps == 3

\* ---------------------------------------------------------------- the Game

VARIABLES
    tiles,            \* tiles[b][t]: sub_boards[b].tiles[t].value
    value,            \* value[b]: sub_boards[b].value
    sub_winner,       \* sub_winner[b]: sub_boards[b].winner
    turn,             \* Game.turn (1: X to move, 0: O to move)
    next_sub_boards,  \* Game.next_sub_boards
    used_sub_boards,  \* Game.used_sub_boards
    winner,           \* Game.winner
    game_value,       \* Game.value (NaN while the attribute does not exist)
    i,                \* the click counter of Game.run
    pc,               \* "running", "crashed" (uncaught exception), "exited"
    last,             \* the last event handled and the branch it took
    steps             \* events handled since the initial state

vars == <<tiles, value, sub_winner, turn, next_sub_boards, used_sub_boards,
          winner, game_value, i, pc, last, steps>>

\* The Game object as one value.
Game == [tiles |-> tiles, value |-> value, sub_winner |-> sub_winner,
         turn |-> turn, next_sub_boards |-> next_sub_boards,
         used_sub_boards |-> used_sub_boards, winner |-> winner,
         game_value |-> game_value, i |-> i, pc |-> pc]

\* Game.__init__ followed by the first lines of Game.run.
NewGame == [tiles |-> [b \in Boards |-> [t \in Boards |-> NaN]],
            value |-> [b \in Boards |-> NaN],
            sub_winner |-> [b \in Boards |-> None],
            turn |-> 1,
            next_sub_boards |-> Boards,
            used_sub_boards |-> {},
            winner |-> None,
            game_value |-> NaN,
            i |-> 0,
            pc |-> "running"]

\* ----------------------------------------------------------------- Tile

\* Tile.update without the test that the tile is empty.
TileUpdateOverwrite(G, b, t) ==
    [ok |-> TRUE,
     g  |-> [G EXCEPT !.tiles[b][t] = IF G.turn = 1 THEN 1 ELSE 0]]

\* Tile.update: writes the mover's value into an empty tile.
TileUpdate(G, b, t) ==
    IF G.tiles[b][t] \notin {0, 1}
    THEN [ok |-> TRUE,
          g  |-> [G EXCEPT !.tiles[b][t] = IF G.turn = 1 THEN 1 ELSE 0]]
    ELSE [ok |-> FALSE, g |-> G]

\* ------------------------------------------------------------- evaluate

\* Float addition with NaN.
Add(a, b) == IF a = NaN \/ b = NaN THEN NaN ELSE a + b

\* sum([v[a].value, v[b].value, v[c].value])
Sum3(v, a, b, c) == Add(Add(Add(0, v[a]), v[b]), v[c])

\* The set `combos` without the diagonal 2, 4, 6.
CombosNoDiagonal(v) ==
    { Sum3(v, 0, 1, 2), Sum3(v, 3, 4, 5), Sum3(v, 6, 7, 8), Sum3(v, 0, 3, 6),
      Sum3(v, 1, 4, 7), Sum3(v, 2, 5, 8), Sum3(v, 0, 4, 8) }

\* The set `combos` of evaluate.
Combos(v) ==
    { Sum3(v, 0, 1, 2), Sum3(v, 3, 4, 5), Sum3(v, 6, 7, 8), Sum3(v, 0, 3, 6),
      Sum3(v, 1, 4, 7), Sum3(v, 2, 5, 8), Sum3(v, 0, 4, 8), Sum3(v, 2, 4, 6) }

\* The .value of each element of the `tiles` argument of evaluate.
Values(G, board) == IF board = GameRef THEN G.value ELSE G.tiles[board]

\* board.value = x without self.used_sub_boards.add(board).
MarkWonNotUsed(G, board, x) ==
    IF board = GameRef
    THEN [G EXCEPT !.game_value = x]
    ELSE [G EXCEPT !.value[board] = x]

\* board.value = x; self.used_sub_boards.add(board).  set.add accepts the
\* Game object as well: no AttributeError is raised.
MarkWon(G, board, x) ==
    IF board = GameRef
    THEN [G EXCEPT !.game_value = x,
                   !.used_sub_boards = @ \cup {board}]
    ELSE [G EXCEPT !.value[board] = x,
                   !.used_sub_boards = @ \cup {board}]

\* `full` of evaluate.
Full(v) == \A k \in Boards : v[k] \in {0, 1}

\* A reset that forgets to replace the tiles of the sub-board.
ReInitKeepTiles(G, board) ==
    IF board = GameRef
    THEN [G EXCEPT !.pc = "crashed"]
    ELSE [G EXCEPT !.value[board] = NaN,
                   !.sub_winner[board] = None]

\* A reset that replaces the tiles of every sub-board.
ReInitAllBoards(G, board) ==
    IF board = GameRef
    THEN [G EXCEPT !.pc = "crashed"]
    ELSE [G EXCEPT !.tiles = [b \in Boards |-> [t \in Boards |-> NaN]],
                   !.value[board] = NaN,
                   !.sub_winner[board] = None]

\* board.__init__(self, board.pos, board.index).  For a SubBoard this is
\* SubBoard.__init__: nine new tiles, value NaN, winner None.  For the Game
\* the argument board.pos raises AttributeError, which `except TypeError`
\* does not catch: the exception leaves evaluate, run and start_game.
ReInit(G, board) ==
    IF board = GameRef
    THEN [G EXCEPT !.pc = "crashed"]
    ELSE [G EXCEPT !.tiles[board] = [t \in Boards |-> NaN],
                   !.value[board] = NaN,
                   !.sub_winner[board] = None]

\* Game.evaluate(board, tiles): the value returned and the Game afterwards.
Evaluate(G, board) ==
    LET v == Values(G, board)
        combos == Combos(v)
    IN  IF 3 \in combos THEN [ret |-> 3, g |-> MarkWon(G, board, 1)]
        ELSE IF 0 \in combos THEN [ret |-> 1, g |-> MarkWon(G, board, 0)]
        ELSE IF Full(v) THEN [ret |-> 0, g |-> ReInit(G, board)]
        ELSE [ret |-> 0, g |-> G]

\* ------------------------------------------------------------------ run

\* "O" if ret == 3 else "X"
SymbolSwapped(ret) == IF ret = 3 THEN "O" ELSE "X"

\* "X" if ret == 3 else "O"
Symbol(ret) == IF ret = 3 THEN "X" ELSE "O"

\* The match-level evaluation with its result dropped.
EvaluateMainDropped(G) == Evaluate(G, GameRef).g

\* Lines 281-282: the match-level evaluation after a sub-board was won.
EvaluateMain(G) ==
    LET m == Evaluate(G, GameRef)
    IN  IF m.g.pc = "crashed" THEN m.g
        ELSE IF m.ret # 0 THEN [m.g EXCEPT !.winner = Symbol(m.ret)]
        ELSE m.g

\* Lines 286-287: unlock every sub-board that is not used when the targeted
\* one is used.
Unlock(G, nsb) ==
    IF nsb \in G.used_sub_boards
    THEN [G EXCEPT !.next_sub_boards = Boards \ G.used_sub_boards]
    ELSE G

\* The same without passing the turn.
AfterUpdateSameTurn(G, b, nsb) ==
    LET e  == Evaluate(G, b)
        G2 == IF e.ret # 0
              THEN EvaluateMain([e.g EXCEPT !.sub_winner[b] = Symbol(e.ret)])
              ELSE e.g
    IN  IF G2.pc = "crashed" THEN G2 ELSE Unlock(G2, nsb)

\* Lines 274-287: what follows a successful tile.update().
AfterUpdate(G, b, nsb) ==
    LET G1 == [G EXCEPT !.turn = (G.turn + 1) % 2]
        e  == Evaluate(G1, b)
        G2 == IF e.ret # 0
              THEN EvaluateMain([e.g EXCEPT !.sub_winner[b] = Symbol(e.ret)])
              ELSE e.g
    IN  IF G2.pc = "crashed" THEN G2 ELSE Unlock(G2, nsb)

\* Lines 258-271: the sub-board whose index equals the clicked tile's index
\* becomes the only element of next_sub_boards.
Retarget(G, t) ==
    LET nsb == CHOOSE b \in Boards : Index(b) = Index(t)
    IN  [G EXCEPT !.next_sub_boards = {nsb}]

\* The click handler without the test `self.winner is None`.
OnClickAfterWin(G, b, t) ==
    LET G1 == [G EXCEPT !.i = @ + 1]
    IN  IF b \notin G1.next_sub_boards
        THEN [g |-> G1, branch |-> "locked"]
        ELSE LET G2 == Retarget(G1, t)
                 u  == TileUpdate(G2, b, t)
             IN  IF ~u.ok
                 THEN [g |-> G2, branch |-> "occupied"]
                 ELSE [g |-> AfterUpdate(u.g, b,
                                 CHOOSE n \in Boards : Index(n) = Index(t)),
                       branch |-> "moved"]

\* The click handler without the test `board in self.next_sub_boards`.
OnClickAnyPanel(G, b, t) ==
    IF G.winner # None THEN [g |-> G, branch |-> "ignored"]
    ELSE LET G2 == Retarget([G EXCEPT !.i = @ + 1], t)
             u  == TileUpdate(G2, b, t)
         IN  IF ~u.ok
             THEN [g |-> G2, branch |-> "occupied"]
             ELSE [g |-> AfterUpdate(u.g, b,
                             CHOOSE n \in Boards : Index(n) = Index(t)),
                   branch |-> "moved"]

\* Lines 247-289: a left click on tile t of sub-board b.  `branch` names the
\* path taken through the handler.
OnClick(G, b, t) ==
    IF G.winner # None THEN [g |-> G, branch |-> "ignored"]
    ELSE LET G1 == [G EXCEPT !.i = @ + 1]
         IN  IF b \notin G1.next_sub_boards
             THEN [g |-> G1, branch |-> "locked"]
             ELSE LET G2 == Retarget(G1, t)
                      u  == TileUpdate(G2, b, t)
                  IN  IF ~u.ok
                      THEN [g |-> G2, branch |-> "occupied"]
                      ELSE [g |-> AfterUpdate(u.g, b,
                                      CHOOSE n \in Boards : Index(n) = Index(t)),
                            branch |-> "moved"]

\* The space key handled outside `if self.winner is not None`.
OnSpaceAlways(G) == [g |-> NewGame, branch |-> "restart"]

\* Lines 293-306: the space key restarts the game once a winner is shown.
OnSpace(G) ==
    IF G.winner # None THEN [g |-> NewGame, branch |-> "restart"]
    ELSE [g |-> G, branch |-> "nokey"]

\* --------------------------------------------------------- initial states

\* The game after the clicks s[k], s[k+1], ... (pairs <<sub-board, tile>>)
\* have been handled by G.
RECURSIVE ReplayFrom(_, _, _)
ReplayFrom(G, s, k) ==
    IF k > Len(s) THEN G
    ELSE LET G1 == OnClick(G, s[k][1], s[k][2]).g
         IN  IF G1.pc = "running" THEN ReplayFrom(G1, s, k + 1) ELSE G1

\* The game after the clicks of s have been handled by a new game.
Replay(s) == ReplayFrom(NewGame, s, 1)

\* A game one move before O wins the match.
SeedWin ==
    << <<0, 5>>, <<5, 4>>, <<4, 0>>, <<0, 0>>, <<0, 2>>, <<2, 4>>, <<4, 4>>, <<4, 2>>,
       <<2, 7>>, <<7, 1>>, <<1, 0>>, <<0, 3>>, <<3, 2>>, <<2, 5>>, <<5, 1>>, <<1, 3>>,
       <<3, 1>>, <<1, 4>>, <<4, 6>>, <<6, 7>>, <<7, 2>>, <<2, 3>>, <<3, 0>>, <<0, 8>>,
       <<8, 1>>, <<1, 6>>, <<6, 0>>, <<0, 6>>, <<6, 1>> >>

\* A game one move before the ninth sub-board is won with no line of
\* sub-boards.
SeedLast ==
    << <<3, 1>>, <<1, 7>>, <<7, 8>>, <<8, 4>>, <<4, 0>>, <<0, 2>>, <<2, 6>>, <<6, 2>>,
       <<2, 4>>, <<4, 3>>, <<3, 4>>, <<4, 7>>, <<7, 7>>, <<7, 4>>, <<4, 2>>, <<2, 7>>,
       <<7, 2>>, <<2, 1>>, <<1, 1>>, <<1, 2>>, <<2, 5>>, <<5, 8>>, <<8, 1>>, <<1, 5>>,
       <<5, 1>>, <<1, 8>>, <<8, 2>>, <<2, 3>>, <<3, 7>>, <<7, 3>>, <<4, 6>>, <<6, 8>>,
       <<8, 0>>, <<0, 4>>, <<4, 1>>, <<6, 5>>, <<5, 3>>, <<5, 7>>, <<7, 6>>, <<5, 5>>,
       <<5, 4>>, <<2, 8>>, <<0, 1>>, <<5, 2>>, <<2, 2>>, <<0, 3>>, <<0, 6>> >>

\* A game one move before a sub-board fills up without a line.
SeedDraw ==
    << <<6, 5>>, <<5, 6>>, <<6, 6>>, <<6, 4>>, <<4, 6>>, <<6, 8>>, <<8, 4>>, <<4, 8>>,
       <<8, 2>>, <<2, 4>>, <<4, 7>>, <<7, 8>>, <<8, 8>>, <<8, 3>>, <<3, 1>>, <<1, 1>>,
       <<1, 3>>, <<3, 6>>, <<6, 1>>, <<1, 2>>, <<2, 6>>, <<6, 3>>, <<3, 3>>, <<3, 4>>,
       <<4, 0>>, <<0, 6>>, <<6, 7>>, <<7, 6>>, <<6, 0>>, <<0, 8>>, <<8, 7>>, <<7, 4>>,
       <<4, 3>>, <<3, 8>>, <<8, 6>> >>

\* A game in which O has won sub-board 4 and X, one move short of a line
\* of its own in that sub-board, may play there again.
SeedReplay ==
    << <<5, 4>>, <<4, 0>>, <<0, 4>>, <<4, 1>>, <<1, 4>>, <<4, 2>>, <<2, 0>>, <<0, 1>>,
       <<1, 4>>, <<4, 3>>, <<3, 1>>, <<1, 4>>, <<4, 4>>, <<1, 0>>, <<0, 4>> >>

\* A game in which sub-board 4 is won and has no empty tile.
SeedFull ==
    << <<5, 4>>, <<4, 0>>, <<0, 4>>, <<4, 1>>, <<1, 4>>, <<4, 2>>, <<2, 0>>, <<0, 4>>,
       <<4, 5>>, <<5, 4>>, <<4, 6>>, <<6, 4>>, <<6, 4>>, <<4, 8>>, <<8, 4>>, <<6, 4>>,
       <<4, 4>>, <<1, 4>>, <<4, 7>>, <<7, 1>>, <<1, 4>>, <<4, 3>>, <<3, 6>> >>

\* Games in progress from which the model is explored: each is what a new
\* game becomes by the clicks listed.
Seeds == { <<>>, SeedWin, SeedLast, SeedDraw, SeedReplay, SeedFull }

Install(G) ==
    /\ tiles' = G.tiles
    /\ value' = G.value
    /\ sub_winner' = G.sub_winner
    /\ turn' = G.turn
    /\ next_sub_boards' = G.next_sub_boards
    /\ used_sub_boards' = G.used_sub_boards
    /\ winner' = G.winner
    /\ game_value' = G.game_value
    /\ i' = G.i
    /\ pc' = G.pc

NoEvent == [branch |-> "none", board |-> 0, tile |-> 0]

Init ==
    \E s \in Seeds :
        LET G == Replay(s)
        IN  /\ tiles = G.tiles
            /\ value = G.value
            /\ sub_winner = G.sub_winner
            /\ turn = G.turn
            /\ next_sub_boards = G.next_sub_boards
            /\ used_sub_boards = G.used_sub_boards
            /\ winner = G.winner
            /\ game_value = G.game_value
            /\ i = G.i
            /\ pc = G.pc
            /\ last = NoEvent
            /\ steps = 0

\* ---------------------------------------------------------------- actions

\* MOUSEBUTTONDOWN, button 1, on tile t of sub-board b.
MouseButtonDown(b, t) ==
    /\ pc = "running"
    /\ steps < MaxSteps
    /\ LET r == OnClick(Game, b, t)
       IN  /\ Install(r.g)
           /\ last' = [branch |-> r.branch,
                       board |-> IF r.branch \in {"moved", "occupied"} THEN b ELSE 0,
                       tile |-> IF r.branch \in {"moved", "occupied"} THEN t ELSE 0]
    /\ steps' = steps + 1

\* KEYDOWN, K_SPACE.
KeySpace ==
    /\ pc = "running"
    /\ steps < MaxSteps
    /\ LET r == OnSpace(Game)
       IN  /\ Install(r.g)
           /\ last' = [branch |-> r.branch, board |-> 0, tile |-> 0]
    /\ steps' = steps + 1

\* QUIT: pg.quit(); sys.exit().
Quit ==
    /\ pc = "running"
    /\ steps < MaxSteps
    /\ pc' = "exited"
    /\ last' = [branch |-> "quit", board |-> 0, tile |-> 0]
    /\ steps' = steps + 1
    /\ UNCHANGED <<tiles, value, sub_winner, turn, next_sub_boards,
                   used_sub_boards, winner, game_value, i>>

Next ==
    \/ \E b \in Boards, t \in Boards : MouseButtonDown(b, t)
    \/ KeySpace
    \/ Quit

Spec == Init /\ [][Next]_vars

\* ------------------------------------------------- evaluate on its own

\* A game whose sub-board b holds any nine tile values (NaN, 0 for O, 1 for
\* X) and whose other sub-boards are new; last.board names b.
InitEval ==
    \E b \in Boards, v \in [Boards -> {NaN, 0, 1}] :
        /\ tiles = [NewGame.tiles EXCEPT ![b] = v]
        /\ value = NewGame.value
        /\ sub_winner = NewGame.sub_winner
        /\ turn = NewGame.turn
        /\ next_sub_boards = NewGame.next_sub_boards
        /\ used_sub_boards = NewGame.used_sub_boards
        /\ winner = NewGame.winner
        /\ game_value = NewGame.game_value
        /\ i = NewGame.i
        /\ pc = NewGame.pc
        /\ last = [branch |-> "none", board |-> b, ret |-> 0]
        /\ steps = 0

\* ret = self.evaluate(board, board.tiles) for the sub-board last.board.
EvaluateBoard ==
    /\ last.branch = "none"
    /\ LET e == Evaluate(Game, last.board)
       IN  /\ Install(e.g)
           /\ last' = [branch |-> "evaluated", board |-> last.board,
                       ret |-> e.ret]
    /\ steps' = steps + 1

NextEval == EvaluateBoard

SpecEval == InitEval /\ [][NextEval]_vars

\* ------------------------------------------------- vocabulary of the claims

\* The eight lines of a 3x3 grid, by list position.
Lines == { {0, 1, 2}, {3, 4, 5}, {6, 7, 8}, {0, 3, 6},
           {1, 4, 7}, {2, 5, 8}, {0, 4, 8}, {2, 4, 6} }

\* Player x owns the three cells of a line of v.
LineOf(v, x) == \E l \in Lines : \A k \in l : v[k] = x

\* The tile belongs to a player.
Owned(b, t) == tiles[b][t] \in {0, 1}

\* The click on tile t of panel b is a legal move: no match winner, the
\* panel is playable and the cell is empty.
Accepted(b, t) == winner = None /\ b \in next_sub_boards /\ ~Owned(b, t)

\* The owner value of the player whose turn it is (X is 1, O is 0), and the
\* player's name.
Mover == IF turn = 1 THEN 1 ELSE 0
MoverName == IF turn = 1 THEN "X" ELSE "O"

\* The cells of panel b once the mover owns cell t.
Played(b, t) == [tiles[b] EXCEPT ![t] = Mover]

\* Every cell of panel b is empty.
Cleared(b) == \A k \in Boards : tiles[b][k] = NaN

\* What the players see of the match: cell owners, turn, playable panels,
\* completed panels, panel winners, match winner.
Board == <<tiles, turn, next_sub_boards, used_sub_boards, sub_winner, winner>>

\* The same of a new match.
FreshBoard == <<NewGame.tiles, NewGame.turn, NewGame.next_sub_boards,
                NewGame.used_sub_boards, NewGame.sub_winner, NewGame.winner>>

\* ----------------------------------------------------------------- claims

\* C1: a click on a cell that is already owned changes nothing: cell owners,
\* turn, playable panels, completed panels, panel winners and match winner
\* are the same after the click as before it, also when the clicked cell
\* lies in a playable panel.
C1_OwnedCellClickChangesNothing ==
    [][\A b \in Boards, t \in Boards :
          (Owned(b, t) /\ MouseButtonDown(b, t)) => UNCHANGED Board]_vars

\* C2: after the handling of every click the playable panels and the
\* completed panels are disjoint.  Stated for the states in which the
\* program is still running.
C2_PlayableDisjointFromCompleted ==
    pc = "running" => next_sub_boards \cap used_sub_boards = {}

\* C3: after every accepted move at cell t that leaves the match without a
\* winner, the playable panels are exactly {panel t} when panel t is not
\* completed after the move's evaluation, and all panels that are not
\* completed when it is.
C3_NextPanelFollowsCell ==
    [][\A b \in Boards, t \in Boards :
          (Accepted(b, t) /\ MouseButtonDown(b, t) /\ winner' = None)
              => next_sub_boards' = IF t \in used_sub_boards'
                                    THEN Boards \ used_sub_boards'
                                    ELSE {t}]_vars

\* C4: once a panel is completed, no later click short of a restart changes
\* any of its cells, its recorded winner or its membership of the completed
\* panels.
C4_CompletedPanelIsFrozen ==
    [][\A b \in Boards :
          (b \in used_sub_boards /\ last'.branch # "restart")
              => /\ tiles'[b] = tiles[b]
                 /\ sub_winner'[b] = sub_winner[b]
                 /\ b \in used_sub_boards']_vars

\* C5: once the match winner is set, every click is rejected and leaves cell
\* owners, turn, playable panels, completed panels and winner unchanged.
C5_NoMoveAfterWin ==
    [][\A b \in Boards, t \in Boards :
          (winner # None /\ MouseButtonDown(b, t))
              => UNCHANGED <<Board, value, game_value, i, pc>>]_vars

\* C5 witness: a click was handled while a winner was set.
C5_Witness == winner # None /\ last.branch = "ignored"

\* C6: the match winner is p exactly when the panels recorded as won by p
\* cover one of the eight lines of the grid of panels; with no such line for
\* either player the winner is None.
C6_WinnerIffLineOfPanels ==
    \A p \in {"X", "O"} : winner = p <=> LineOf(sub_winner, p)

\* C6 witness: the move just handled completed a line of panels.
C6_Witness ==
    /\ last.branch = "moved"
    /\ winner # None
    /\ LineOf(sub_winner, winner)

\* The accepted move at cell t of panel b wins the ninth panel and leaves
\* neither player with a line of panels.
NinthPanel(b, t) ==
    /\ Accepted(b, t)
    /\ used_sub_boards = Boards \ {b}
    /\ LineOf(Played(b, t), Mover)
    /\ LET w == [sub_winner EXCEPT ![b] = MoverName]
       IN  ~LineOf(w, "X") /\ ~LineOf(w, "O")

\* C7: when an accepted move wins the ninth panel and nobody owns a line of
\* panels, the next state is a new match in progress (81 empty cells, no
\* completed panel, all panels playable, no winner) and the program keeps
\* running.
C7_FullBoardResets ==
    [][\A b \in Boards, t \in Boards :
          (NinthPanel(b, t) /\ MouseButtonDown(b, t))
              => pc' = "running" /\ Board' = FreshBoard]_vars

\* The accepted move at cell t of panel b fills the panel's ninth cell and
\* leaves no line in it.
DrawMove(b, t) ==
    /\ Accepted(b, t)
    /\ \A k \in Boards \ {t} : Owned(b, k)
    /\ ~LineOf(Played(b, t), 0)
    /\ ~LineOf(Played(b, t), 1)

\* C8: an accepted move that fills a panel without a line resets that panel
\* in place (nine empty cells, no winner, not completed) and leaves the
\* cells of the other panels alone; so no panel outside the completed panels
\* ever has nine occupied cells.
C8_DrawResetsPanel ==
    /\ [](\A b \in Boards \ used_sub_boards : \E t \in Boards : ~Owned(b, t))
    /\ [][\A b \in Boards, t \in Boards :
             (DrawMove(b, t) /\ MouseButtonDown(b, t))
                 => /\ \A k \in Boards : tiles'[b][k] = NaN
                    /\ sub_winner'[b] = None
                    /\ b \notin used_sub_boards'
                    /\ \A o \in Boards \ {b} : tiles'[o] = tiles[o]]_vars

\* C8 witness: the panel just played in is empty, which only a draw reset
\* brings about.
C8_Witness ==
    /\ last.branch = "moved"
    /\ Cleared(last.board)
    /\ last.board \notin used_sub_boards

\* C9: an owned cell never changes to the other player, and becomes empty
\* only with its whole panel after a move in that panel (the draw reset) or
\* with the whole board at a restart.
C9_OwnerIsWrittenOnce ==
    [][\A b \in Boards, t \in Boards :
          Owned(b, t)
              => \/ tiles'[b][t] = tiles[b][t]
                 \/ /\ last'.branch = "moved"
                    /\ last'.board = b
                    /\ \A k \in Boards : tiles'[b][k] = NaN
                 \/ /\ last'.branch = "restart"
                    /\ tiles' = NewGame.tiles]_vars

\* C9 witness: a click on an owned cell of a playable panel was handled and
\* the cell still has an owner.
C9_Witness ==
    /\ last.branch = "occupied"
    /\ Owned(last.board, last.tile)

\* C10: a new match starts with X to move; an accepted move writes the
\* mover's value into the clicked cell (which stays unless the panel is draw
\* reset by the move) and passes the turn to the other player; a rejected
\* click leaves the turn alone.
C10_TurnsAlternate ==
    /\ i = 0 => turn = 1
    /\ \A b \in Boards, t \in Boards :
          LET g == OnClick(Game, b, t).g
          IN  IF Accepted(b, t)
              THEN /\ g.turn = 1 - turn
                   /\ \/ g.tiles[b][t] = Mover
                      \/ \A k \in Boards : g.tiles[b][k] = NaN
              ELSE g.turn = turn

\* C10 witness: X has just moved into a cell and it is O's turn.
C10_Witness ==
    /\ last.branch = "moved"
    /\ tiles[last.board][last.tile] = 1
    /\ turn = 0

\* C11 as stated: the space key restarts the match in every state, whether
\* or not a winner has been decided.
C11_SpaceAlwaysRestarts ==
    [][KeySpace => pc' = "running" /\ Board' = FreshBoard]_vars

\* C11: the space key restarts the match exactly when a winner has been
\* decided (the new match has 81 empty cells, no panel winner, all panels
\* playable, none completed, no winner, X to move); while no winner is
\* decided it changes nothing.
C11_SpaceRestartsAfterWin ==
    [][KeySpace => IF winner # None
                   THEN /\ pc' = "running"
                        /\ Board' = FreshBoard
                        /\ value' = NewGame.value
                        /\ i' = 0
                   ELSE UNCHANGED <<Board, value, game_value, i, pc>>]_vars

\* C11 witness: the match was restarted and is new.
C11_Witness ==
    /\ last.branch = "restart"
    /\ Board = FreshBoard

\* C12: a click on any cell, empty or owned, of a panel that is not playable
\* is rejected and changes nothing: cell owners, turn, playable panels,
\* completed panels, panel winners and match winner are as before.
C12_LockedPanelClickChangesNothing ==
    \A b \in Boards \ next_sub_boards, t \in Boards :
        LET r == OnClick(Game, b, t)
        IN  /\ r.branch \in {"locked", "ignored"}
            /\ r.g.tiles = tiles
            /\ r.g.turn = turn
            /\ r.g.next_sub_boards = next_sub_boards
            /\ r.g.used_sub_boards = used_sub_boards
            /\ r.g.sub_winner = sub_winner
            /\ r.g.winner = winner
            /\ r.g.pc = pc

\* C12 witness: a click on a panel that is not playable was handled while
\* no winner was decided, and some panel is still not playable.
C12_Witness ==
    /\ last.branch = "locked"
    /\ winner = None
    /\ next_sub_boards # Boards

\* C13: after every click each panel's recorded status is what evaluate
\* gives on its current nine cells: the panel is completed with recorded
\* winner X and value 1 exactly when evaluate reports 3, completed with
\* recorded winner O and value 0 exactly when evaluate reports 1, and
\* otherwise it is not completed and has no recorded winner.
C13_StatusIsEvaluation ==
    \A b \in Boards :
        LET ret == Evaluate(Game, b).ret
            X == b \in used_sub_boards /\ sub_winner[b] = "X" /\ value[b] = 1
            O == b \in used_sub_boards /\ sub_winner[b] = "O" /\ value[b] = 0
        IN  /\ X <=> ret = 3
            /\ O <=> ret = 1
            /\ ~X /\ ~O => b \notin used_sub_boards /\ sub_winner[b] = None

\* C13 witness: the move just handled completed a line in its panel, and
\* the panel is completed and recorded as won by the owner of the line.
C13_Witness ==
    /\ last.branch = "moved"
    /\ last.board \in used_sub_boards
    /\ \E p \in {0, 1} :
          /\ tiles[last.board][last.tile] = p
          /\ LineOf(tiles[last.board], p)
          /\ sub_winner[last.board] = IF p = 1 THEN "X" ELSE "O"

\* C14: for every assignment of Empty, X, O to the nine cells of a panel in
\* which at most one player owns a complete line, evaluate agrees with the
\* rule of the eight lines: it reports 3 exactly when X owns the three cells
\* of a row, column or diagonal and 1 exactly when O does, and then marks the
\* panel completed with that value and leaves its cells alone; it resets the
\* panel (nine empty cells) exactly when all nine cells are owned and no
\* line is; otherwise it reports 0 and changes nothing.  A line with an
\* Empty cell never counts.
C14_EvaluateIsLineRule ==
    [][EvaluateBoard =>
         LET b == last.board
             x == LineOf(tiles[b], 1)
             o == LineOf(tiles[b], 0)
             full == \A k \in Boards : Owned(b, k)
         IN  ~(x /\ o) =>
                /\ last'.ret = (IF x THEN 3 ELSE IF o THEN 1 ELSE 0)
                /\ x \/ o => /\ tiles' = tiles
                             /\ used_sub_boards' = {b}
                             /\ value' = [value EXCEPT ![b] = IF x THEN 1 ELSE 0]
                /\ ~x /\ ~o /\ full => /\ tiles' = NewGame.tiles
                                       /\ used_sub_boards' = {}
                                       /\ value' = NewGame.value
                /\ ~x /\ ~o /\ ~full => UNCHANGED <<tiles, value, used_sub_boards>>
                /\ UNCHANGED <<sub_winner, turn, next_sub_boards, winner,
                               game_value, i, pc>>]_vars

\* C14 witness: evaluate has reported a win for O on a panel in which O owns
\* a line and another line holds only X cells and Empty cells, some of each.
C14_Witness ==
    /\ last.branch = "evaluated"
    /\ last.ret = 1
    /\ LineOf(tiles[last.board], 0)
    /\ \E l \in Lines :
          /\ \A k \in l : tiles[last.board][k] \in {1, NaN}
          /\ \E k \in l : tiles[last.board][k] = NaN
          /\ \E k \in l : tiles[last.board][k] = 1

\* C15: the match never reaches a stalemate: in every state in which the
\* program runs and no match winner is set, some click is accepted as a
\* move, that is, some playable panel has an Empty cell.
C15_SomeMoveIsAccepted ==
    (pc = "running" /\ winner = None)
        => \E b \in next_sub_boards \cap Boards, t \in Boards : ~Owned(b, t)

\* C16: in every reachable state no panel holds a complete line of X and a
\* complete line of O at the same time.
C16_NoPanelWithBothLines ==
    \A b \in Boards : ~(LineOf(tiles[b], 1) /\ LineOf(tiles[b], 0))

\* C17: whenever the match winner changes from None to a player p, the
\* step is an accepted move and p is the player who made it: the player
\* whose turn it was, whose value the move wrote into the clicked cell.
C17_WinnerIsTheMover ==
    [][(winner = None /\ winner' # None)
          => /\ winner' = MoverName
             /\ last'.branch = "moved"
             /\ Accepted(last'.board, last'.tile)
             /\ tiles'[last'.board][last'.tile] = Mover
             /\ turn' = 1 - turn]_vars

\* C17 witness: O has just moved, the turn has passed to X, and O is the
\* match winner.
C17_Witness ==
    /\ last.branch = "moved"
    /\ tiles[last.board][last.tile] = 0
    /\ turn = 1
    /\ winner = "O"

\* C18: an accepted move in panel b after which the program still runs (the
\* move does not end in the reset of the whole match) leaves the cell
\* owners and the recorded winners of the other eight panels unchanged, and
\* within b changes only the clicked cell unless the move fills b without a
\* line, in which case b is left with nine empty cells.
C18_MoveTouchesOnePanel ==
    \A b \in Boards, t \in Boards :
        Accepted(b, t) =>
            LET g == OnClick(Game, b, t).g
            IN  g.pc = "running" =>
                   /\ \A o \in Boards \ {b} : /\ g.tiles[o] = tiles[o]
                                              /\ g.sub_winner[o] = sub_winner[o]
                   /\ IF DrawMove(b, t)
                      THEN \A k \in Boards : g.tiles[b][k] = NaN
                      ELSE g.tiles[b] = Played(b, t)

\* C18 witness: a move was accepted in a panel while another panel had
\* owned cells and a third one a recorded winner, and the program runs.
C18_Witness ==
    /\ last.branch = "moved"
    /\ pc = "running"
    /\ \E o \in Boards \ {last.board}, p \in Boards \ {last.board} :
          /\ o # p
          /\ \E k \in Boards : Owned(o, k)
          /\ sub_winner[p] # None

\* C19: the completed panels only ever contain panels: in every reachable
\* state, the one right after the match is won included, every element of
\* used_sub_boards is one of the nine sub-boards, never the Game object.
C19_OnlyPanelsAreCompleted ==
    used_sub_boards \subseteq Boards

====
